---- MODULE Spec2Model ----
(***************************************************************************)
(* Model of notebooks/MLAnalysis.py: class RegressionAnalyzer.             *)
(*                                                                         *)
(* Numbers are exact: a real is a normalised fraction <<n, d>> with d > 0, *)
(* a standard deviation is kept as the square root of a fraction, and NaN  *)
(* is a value of its own.  Floating-point rounding is not modelled.        *)
(***************************************************************************)
EXTENDS Integers, Sequences, FiniteSets

VARIABLES pc, scale_as, prediction, truth, res, op, ret, err, ax

vars == <<pc, scale_as, prediction, truth, res, op, ret, err, ax>>

(* ---------------------------- bounds ----------------------------------- *)
MaxLen == 3

\* the values an input array may hold
Vals == {0, 1}

Arrays == UNION {[1..n -> Vals] : n \in 0..MaxLen}

(* ------------------------- exact arithmetic ---------------------------- *)
AbsInt(x) == IF x < 0 THEN -x ELSE x

RECURSIVE Gcd(_, _)
Gcd(a, b) == IF b = 0 THEN a ELSE Gcd(b, a % b)

Rat(n, d) ==
    LET s == IF d < 0 THEN -1 ELSE 1
        g == Gcd(AbsInt(n), AbsInt(d))
    IN  <<(s * n) \div g, (s * d) \div g>>

RInt(k) == <<k, 1>>
RAdd(a, b) == Rat(a[1] * b[2] + b[1] * a[2], a[2] * b[2])
RSub(a, b) == Rat(a[1] * b[2] - b[1] * a[2], a[2] * b[2])
RMul(a, b) == Rat(a[1] * b[1], a[2] * b[2])
RDiv(a, b) == Rat(a[1] * b[2], a[2] * b[1])
RAbs(a) == <<AbsInt(a[1]), a[2]>>
RLt(a, b) == a[1] * b[2] < b[1] * a[2]
RLe(a, b) == a[1] * b[2] <= b[1] * a[2]

RECURSIVE RSum(_)
RSum(s) == IF s = <<>> THEN RInt(0) ELSE RAdd(Head(s), RSum(Tail(s)))

\* a returned value: nothing, NaN, a fraction, the square root of a fraction,
\* or a boolean mask
None == [k |-> "none", v |-> <<0, 1>>, m |-> <<>>]
NaN == [k |-> "nan", v |-> <<0, 1>>, m |-> <<>>]
Num(q) == [k |-> "num", v |-> q, m |-> <<>>]
Root(q) == [k |-> "root", v |-> q, m |-> <<>>]
Mask(b) == [k |-> "mask", v |-> <<0, 1>>, m |-> b]

(* ------------------------- scaling functions --------------------------- *)
\* The scaling functions tried: none, f(x) = 1 + x as in the class docstring,
\* and the same function written so that it overwrites its argument in place.
ScaleFuncs == {"none", "one_plus", "one_plus_inplace"}

\* scale_as(a): the returned array, and the argument array after the call.
ScaleCall(f, a) ==
    LET out == [i \in 1..Len(a) |-> 1 + a[i]]
    IN  [out |-> out, arg |-> IF f = "one_plus_inplace" THEN out ELSE a]

(* --------------------------- construction ------------------------------ *)
Kinds == {"ndarray", "list"}
Dtypes == {"int", "float"}

\* numpy's result type of prediction - truth
SubDtype(pd, td) == IF pd = "int" /\ td = "int" THEN "int" ELSE "float"

Diff(p, t) == [i \in 1..Len(p) |-> RInt(p[i] - t[i])]

\* line 70 reads .shape of the arguments as passed, not of the converted arrays
ShapeReadable(pk, tk) == pk = "ndarray" /\ tk = "ndarray"

\* line 74 hands scale_as a copy of self.truth
TruthAfterScale(f, t) == t

\* in-place true division needs a floating result array
CanDivideInPlace(dt) == dt = "float"

Scaled(d, t, f) ==
    [i \in 1..Len(d) |-> RDiv(d[i], RInt(ScaleCall(f, t).out[i]))]

NoTitle == [label |-> "", pct |-> None, r2 |-> None]
NoLines == [kind |-> "none", lo |-> 0, hi |-> 0, scaling |-> "none"]
NoAx == [view |-> "none", nonout |-> <<>>, out |-> <<>>,
         lines |-> NoLines, title |-> NoTitle]

\* the arguments a caller may pass to RegressionAnalyzer(...)
Args ==
    [p : Arrays, t : Arrays, pk : Kinds, tk : Kinds,
     pd : Dtypes, td : Dtypes, f : ScaleFuncs]

Init ==
    /\ pc = "new"
    /\ op \in [name : {"__init__"}, args : Args]
    /\ scale_as = "none"
    /\ prediction = <<>>
    /\ truth = <<>>
    /\ res = <<>>
    /\ ret = None
    /\ err = "none"
    /\ ax = NoAx

New(p, t, pk, tk, pd, td, f) ==
    /\ scale_as' = f
    /\ prediction' = p
    /\ IF ~ShapeReadable(pk, tk)
       THEN /\ err' = "AttributeError"
            /\ pc' = "failed"
            /\ truth' = t
            /\ res' = <<>>
       ELSE IF Len(t) # Len(p)
       THEN /\ err' = "ShapeMismatch"
            /\ pc' = "failed"
            /\ truth' = t
            /\ res' = <<>>
       ELSE IF f = "none"
       THEN /\ err' = "none"
            /\ pc' = "returned"
            /\ truth' = t
            /\ res' = Diff(p, t)
       ELSE IF ~CanDivideInPlace(SubDtype(pd, td))
       THEN /\ err' = "TypeError"
            /\ pc' = "failed"
            /\ truth' = TruthAfterScale(f, t)
            /\ res' = Diff(p, t)
       ELSE /\ err' = "none"
            /\ pc' = "returned"
            /\ truth' = TruthAfterScale(f, t)
            /\ res' = Scaled(Diff(p, t), t, f)

Construct ==
    /\ pc = "new"
    /\ LET a == op.args
       IN  New(a.p, a.t, a.pk, a.tk, a.pd, a.td, a.f)
    /\ UNCHANGED <<op, ret, ax>>

\* the caller takes the result; the analyzer is ready for the next call
Return ==
    /\ pc = "returned"
    /\ pc' = "ready"
    /\ op' = [name |-> "none", args |-> <<>>]
    /\ ret' = None
    /\ err' = "none"
    /\ ax' = NoAx
    /\ UNCHANGED <<scale_as, prediction, truth, res>>

(* ----------------------------- statistics ------------------------------ *)
RECURSIVE Insert(_, _)
Insert(x, s) ==
    IF s = <<>> THEN <<x>>
    ELSE IF RLe(x, Head(s)) THEN <<x>> \o s
    ELSE <<Head(s)>> \o Insert(x, Tail(s))

RECURSIVE Sorted(_)
Sorted(s) == IF s = <<>> THEN <<>> ELSE Insert(Head(s), Sorted(Tail(s)))

AbsAll(s) == [i \in 1..Len(s) |-> RAbs(s[i])]

\* np.median: NaN of an empty array, the middle element, or the mean of the
\* two middle elements
Median(s) ==
    LET n == Len(s)
        o == Sorted(s)
    IN  IF n = 0 THEN NaN
        ELSE IF n % 2 = 1 THEN Num(o[(n + 1) \div 2])
        ELSE Num(RDiv(RAdd(o[n \div 2], o[n \div 2 + 1]), RInt(2)))

NmadFactor == <<37, 25>>

\* the median taken of the residuals themselves, np.abs left out
nmad_signed(r) ==
    LET m == Median(r)
    IN  IF m.k = "nan" THEN NaN ELSE Num(RMul(NmadFactor, m.v))

nmad(r) ==
    LET m == Median(AbsAll(r))
    IN  IF m.k = "nan" THEN NaN ELSE Num(RMul(NmadFactor, m.v))

Mean(s) == RDiv(RSum(s), RInt(Len(s)))

SqDev(s, c) == [i \in 1..Len(s) |-> RMul(RSub(s[i], c), RSub(s[i], c))]

\* np.std(res, ddof=1): the root of sum((r - mean)^2) / (N - 1); NaN for N <= 1
std(r) ==
    IF Len(r) <= 1 THEN NaN
    ELSE Root(RDiv(RSum(SqDev(r, Mean(r))), RInt(Len(r) - 1)))

IntsToRat(s) == [i \in 1..Len(s) |-> RInt(s[i])]

\* sklearn.metrics.r2_score(truth, prediction) on one-dimensional input:
\* refuses an empty array, is NaN for one sample, and for a zero denominator
\* gives 1.0 on a perfect prediction and 0.0 otherwise
R2Raises(t) == Len(t) = 0

\* the textbook formula with no guard on a zero denominator
r2_unguarded(t, p) ==
    LET tr == IntsToRat(t)
        d == [i \in 1..Len(t) |-> RInt(t[i] - p[i])]
        ssres == RSum([i \in 1..Len(t) |-> RMul(d[i], d[i])])
        sstot == RSum(SqDev(tr, Mean(tr)))
    IN  IF Len(t) < 2 \/ sstot = RInt(0) THEN NaN
        ELSE Num(RSub(RInt(1), RDiv(ssres, sstot)))

r2(t, p) ==
    LET tr == IntsToRat(t)
        d == [i \in 1..Len(t) |-> RInt(t[i] - p[i])]
        ssres == RSum([i \in 1..Len(t) |-> RMul(d[i], d[i])])
        sstot == RSum(SqDev(tr, Mean(tr)))
    IN  IF Len(t) < 2 THEN NaN
        ELSE IF sstot # RInt(0) THEN Num(RSub(RInt(1), RDiv(ssres, sstot)))
        ELSE IF ssres = RInt(0) THEN Num(RInt(1))
        ELSE Num(RInt(0))

(* ------------------------- estimator selection ------------------------- *)
Upper == <<"A", "B", "C", "D", "E", "F", "G", "H", "I", "J", "K", "L", "M",
           "N", "O", "P", "Q", "R", "S", "T", "U", "V", "W", "X", "Y", "Z">>
LowerCase == <<"a", "b", "c", "d", "e", "f", "g", "h", "i", "j", "k", "l", "m",
               "n", "o", "p", "q", "r", "s", "t", "u", "v", "w", "x", "y", "z">>

LowerChar(c) ==
    IF \E i \in 1..26 : Upper[i] = c
    THEN LowerCase[CHOOSE i \in 1..26 : Upper[i] = c]
    ELSE c

\* str.lower() on a string written as its sequence of characters
Lower(s) == [i \in 1..Len(s) |-> LowerChar(s[i])]

StrNmad == <<"n", "m", "a", "d">>
StrStd == <<"s", "t", "d">>

\* the name compared as given, .lower() left out
ChooseSpreadEstimator_caseSensitive(s) ==
    IF s = StrNmad THEN "nmad"
    ELSE IF s = StrStd THEN "std"
    ELSE "invalid"

\* _choose_spread_estimator: which method is selected, or "invalid"
ChooseSpreadEstimator(s) ==
    IF Lower(s) = StrNmad THEN "nmad"
    ELSE IF Lower(s) = StrStd THEN "std"
    ELSE "invalid"

\* _choose_spread_label
ChooseSpreadLabel(s) ==
    IF Lower(s) = StrNmad THEN "sigma_NMAD"
    ELSE IF Lower(s) = StrStd THEN "sigma"
    ELSE "invalid"

\* calling the selected bound method
SpreadOf(e, r) == IF e = "nmad" THEN nmad(r) ELSE std(r)

(* ----------------------------- outliers -------------------------------- *)
\* >= in place of >
Exceeds_orEqual(a, sigma, spread) ==
    IF spread.k = "nan" THEN FALSE
    ELSE IF spread.k = "num" THEN RLe(RMul(sigma, spread.v), a)
    ELSE IF RLe(RInt(0), sigma)
         THEN RLe(RMul(RMul(sigma, sigma), spread.v), RMul(a, a))
         ELSE TRUE

\* a > sigma * spread for a >= 0; a comparison with NaN is false
Exceeds(a, sigma, spread) ==
    IF spread.k = "nan" THEN FALSE
    ELSE IF spread.k = "num" THEN RLt(RMul(sigma, spread.v), a)
    ELSE IF RLe(RInt(0), sigma)
         THEN RLt(RMul(RMul(sigma, sigma), spread.v), RMul(a, a))
         ELSE RLt(RInt(0), a) \/ RLt(RInt(0), spread.v)

\* the comparison turned round: residuals within the threshold are flagged
OutlierMask_within(r, sigma, spread) ==
    [i \in 1..Len(r) |->
        spread.k # "nan" /\ ~Exceeds(RAbs(r[i]), sigma, spread)]

\* np.abs(self.res) > (outlier_sigmas * spread)
OutlierMask(r, sigma, spread) ==
    [i \in 1..Len(r) |-> Exceeds(RAbs(r[i]), sigma, spread)]

Count(m) == Cardinality({i \in 1..Len(m) : m[i]})

\* the count of outliers returned as a percentage
Fraction_percent(m, n) ==
    IF n = 0 THEN NaN ELSE Num(Rat(100 * Cardinality({i \in 1..Len(m) : m[i]}), n))

\* np.sum(mask) / float(n): numpy division, NaN for 0 / 0.0
Fraction(m, n) == IF n = 0 THEN NaN ELSE Num(Rat(Count(m), n))

(* ------------------------------ plotting ------------------------------- *)
Pow10(k) == IF k = 3 THEN 1000 ELSE 10000

\* format(x, ".<k>f"): x rounded to k decimals, ties to even
RoundDec(q, k) ==
    LET n == q[1] * Pow10(k)
        d == q[2]
        fl == n \div d
        rem == n - fl * d
        m == IF 2 * rem > d THEN fl + 1
             ELSE IF 2 * rem < d THEN fl
             ELSE IF fl % 2 = 0 THEN fl ELSE fl + 1
    IN  Rat(m, Pow10(k))

\* outlier_frac*100
Times100(x) == IF x.k = "nan" THEN NaN ELSE Num(RMul(RInt(100), x.v))

Fmt(x, k) == IF x.k = "nan" THEN NaN ELSE Num(RoundDec(x.v, k))

\* the indices a boolean-mask subscript keeps, in order
RECURSIVE SelectFrom(_, _, _)
SelectFrom(m, b, i) ==
    IF i > Len(m) THEN <<>>
    ELSE (IF m[i] = b THEN <<i>> ELSE <<>>) \o SelectFrom(m, b, i + 1)

\* the two classes exchanged
Select_exchanged(m, b) == SelectFrom(m, ~b, 1)

Select(m, b) == SelectFrom(m, b, 1)

RECURSIVE MinOf(_)
MinOf(s) ==
    IF Len(s) = 1 THEN s[1]
    ELSE LET r == MinOf(Tail(s)) IN IF s[1] < r THEN s[1] ELSE r

RECURSIVE MaxOf(_)
MaxOf(s) ==
    IF Len(s) = 1 THEN s[1]
    ELSE LET r == MaxOf(Tail(s)) IN IF s[1] > r THEN s[1] ELSE r

\* scale_as evaluated on self.truth itself
TruthAfterBounds_shared(f, t) == ScaleCall(f, t).arg

\* line 182 hands scale_as a copy of the sampled range x, never self.truth
TruthAfterBounds(f, t) == t

Views == {"res", "raw"}

(* ------------------------------- calls --------------------------------- *)
Sigmas == {<<-1, 1>>, <<0, 1>>, <<1, 2>>, <<1, 1>>, <<3, 1>>}

Names == {<<"n", "m", "a", "d">>, <<"N", "M", "A", "D">>, <<"s", "t", "d">>,
          <<"S", "t", "d">>, <<"b", "o", "g", "u", "s">>}

Frame == UNCHANGED <<scale_as, prediction, truth, res>>

Call(name, args) ==
    /\ pc = "ready"
    /\ pc' = "returned"
    /\ op' = [name |-> name, args |-> args]

CallNmad ==
    /\ Call("nmad", <<>>)
    /\ ret' = nmad(res)
    /\ err' = "none"
    /\ ax' = NoAx
    /\ Frame

CallStd ==
    /\ Call("std", <<>>)
    /\ ret' = std(res)
    /\ err' = "none"
    /\ ax' = NoAx
    /\ Frame

CallR2 ==
    /\ Call("r2", <<>>)
    /\ IF R2Raises(truth)
       THEN ret' = None /\ err' = "EmptyInput"
       ELSE ret' = r2(truth, prediction) /\ err' = "none"
    /\ ax' = NoAx
    /\ Frame

is_outlier(sigma, s) ==
    LET e == ChooseSpreadEstimator(s)
    IN  IF e = "invalid"
        THEN ret' = None /\ err' = "InvalidEstimator"
        ELSE ret' = Mask(OutlierMask(res, sigma, SpreadOf(e, res)))
             /\ err' = "none"

CallIsOutlier ==
    \E sigma \in Sigmas, s \in Names :
        /\ Call("is_outlier", [sigma |-> sigma, est |-> s])
        /\ is_outlier(sigma, s)
        /\ ax' = NoAx
        /\ Frame

outlier_frac(sigma, s) ==
    LET e == ChooseSpreadEstimator(s)
    IN  IF e = "invalid"
        THEN ret' = None /\ err' = "InvalidEstimator"
        ELSE ret' = Fraction(OutlierMask(res, sigma, SpreadOf(e, res)), Len(res))
             /\ err' = "none"

CallOutlierFrac ==
    \E sigma \in Sigmas, s \in Names :
        /\ Call("outlier_frac", [sigma |-> sigma, est |-> s])
        /\ outlier_frac(sigma, s)
        /\ ax' = NoAx
        /\ Frame

plot_residuals(sigma, s, view) ==
    LET label == ChooseSpreadLabel(s)
        e == ChooseSpreadEstimator(s)
        spread == SpreadOf(e, res)
        mask == OutlierMask(res, sigma, spread)
        frac == Fraction(mask, Len(truth))
        scattered == [NoAx EXCEPT !.view = view,
                                  !.nonout = Select(mask, FALSE),
                                  !.out = Select(mask, TRUE)]
        lined == IF view = "res"
                 THEN [scattered EXCEPT !.lines =
                          [kind |-> "hline", lo |-> 0, hi |-> 0,
                           scaling |-> "none"]]
                 ELSE [scattered EXCEPT !.lines =
                          [kind |-> "curve", lo |-> MinOf(truth),
                           hi |-> MaxOf(truth), scaling |-> scale_as]]
        titled == [lined EXCEPT !.title =
                      [label |-> label, pct |-> Fmt(Times100(frac), 3),
                       r2 |-> Fmt(r2(truth, prediction), 4)]]
    IN  /\ ret' = None
        /\ IF label = "invalid" \/ e = "invalid"
           THEN /\ err' = "InvalidEstimator"
                /\ ax' = NoAx
                /\ Frame
           ELSE IF view = "raw" /\ Len(truth) = 0
           THEN /\ err' = "EmptyInput"
                /\ ax' = scattered
                /\ Frame
           ELSE /\ IF R2Raises(truth)
                   THEN err' = "EmptyInput" /\ ax' = lined
                   ELSE err' = "none" /\ ax' = titled
                /\ truth' = IF view = "raw" /\ scale_as # "none"
                            THEN TruthAfterBounds(scale_as, truth)
                            ELSE truth
                /\ UNCHANGED <<scale_as, prediction, res>>

CallPlot ==
    \E sigma \in Sigmas, s \in Names, view \in Views :
        /\ Call("plot_residuals", [sigma |-> sigma, est |-> s, view |-> view])
        /\ plot_residuals(sigma, s, view)

Next ==
    \/ Construct
    \/ Return
    \/ CallNmad
    \/ CallStd
    \/ CallR2
    \/ CallIsOutlier
    \/ CallOutlierFrac
    \/ CallPlot

Spec == Init /\ [][Next]_vars

(* ------------------------- checked properties -------------------------- *)
Zero == RInt(0)

IsCall(n) == pc = "returned" /\ op.name = n

Constructed == op.name = "__init__" /\ pc \in {"returned", "failed"}

ValidName(s) == Lower(s) \in {StrNmad, StrStd}

\* the spread a valid estimator name stands for
TheSpread(s) == IF Lower(s) = StrNmad THEN nmad(res) ELSE std(res)

\* a <= sigma * spread for a >= 0 and a spread that is a number
LeProduct(a, sigma, spread) ==
    IF spread.k = "num" THEN RLe(a, RMul(sigma, spread.v))
    ELSE IF RLt(sigma, Zero) THEN a = Zero /\ spread.v = Zero
    ELSE RLe(RMul(a, a), RMul(RMul(sigma, sigma), spread.v))

Above(a, sigma, spread) == spread.k # "nan" /\ ~LeProduct(a, sigma, spread)

Flagged(sigma, s) ==
    LET sp == TheSpread(s)
    IN  {i \in 1..Len(res) : Above(RAbs(res[i]), sigma, sp)}

IsZero(x) == x.k # "nan" /\ x.v = Zero

SeqSet(q) == {q[i] : i \in 1..Len(q)}

\* C1: construction from prediction and truth of different lengths fails, and
\* the failure is ShapeMismatch, whatever kind of array-like is passed.
C1_DifferentLengthsRaiseShapeMismatch ==
    (Constructed /\ Len(op.args.p) # Len(op.args.t))
        => (pc = "failed" /\ err = "ShapeMismatch")

\* C2: for equal-length inputs of either dtype and a scaling function that is
\* nonzero on truth, construction succeeds and
\* residual[i] = (prediction[i] - truth[i]) / f(truth[i]), with all three
\* arrays of the same length.
C2_EqualLengthsGiveScaledResidual ==
    (Constructed /\ Len(op.args.p) = Len(op.args.t) /\ op.args.f # "none")
        => /\ pc = "returned"
           /\ err = "none"
           /\ Len(res) = Len(prediction)
           /\ Len(prediction) = Len(truth)
           /\ \A i \in 1..Len(res) :
                  RMul(res[i], RInt(1 + op.args.t[i]))
                      = RInt(op.args.p[i] - op.args.t[i])

\* C3: is_outlier returns a mask of length N that is true at i exactly when
\* abs(residual[i]) > outlier_sigmas * spread (strictly); with a zero spread
\* exactly the nonzero residuals are flagged.
C3_MaskIffStrictlyAbove ==
    (IsCall("is_outlier") /\ err = "none")
        => LET above == Flagged(op.args.sigma, op.args.est)
           IN  /\ ret.k = "mask"
               /\ Len(ret.m) = Len(res)
               /\ \A i \in 1..Len(res) : ret.m[i] <=> (i \in above)
               /\ IsZero(TheSpread(op.args.est))
                      => \A i \in 1..Len(res) : ret.m[i] <=> (res[i] # Zero)

C3_Witness ==
    /\ IsCall("is_outlier")
    /\ err = "none"
    /\ IsZero(TheSpread(op.args.est))
    /\ \E i \in 1..Len(res) : ret.m[i]
    /\ \E i \in 1..Len(res) : ~ret.m[i]

FractionIs(x, c, n) == x.k = "num" /\ x.v[1] * n = c * x.v[2]

InUnitInterval(x) == x.k = "num" /\ RLe(Zero, x.v) /\ RLe(x.v, RInt(1))

\* C4 as stated: for every analyzer outlier_fraction returns count/N, a value
\* in [0,1], 0.0 when no residual exceeds the threshold and 1.0 when all do.
C4_FractionInUnitInterval ==
    (IsCall("outlier_frac") /\ err = "none")
        => LET c == Cardinality(Flagged(op.args.sigma, op.args.est))
           IN  /\ FractionIs(ret, c, Len(res))
               /\ InUnitInterval(ret)
               /\ c = 0 => ret = Num(Zero)
               /\ c = Len(res) => ret = Num(RInt(1))

\* C4 amended: the same for every analyzer with N >= 1 (for N = 0 the
\* fraction is 0/0, NaN).
C4_FractionInUnitIntervalNonEmpty ==
    (IsCall("outlier_frac") /\ err = "none" /\ Len(res) >= 1)
        => LET c == Cardinality(Flagged(op.args.sigma, op.args.est))
           IN  /\ FractionIs(ret, c, Len(res))
               /\ InUnitInterval(ret)
               /\ c = 0 => ret = Num(Zero)
               /\ c = Len(res) => ret = Num(RInt(1))

C4_Witness ==
    /\ IsCall("outlier_frac")
    /\ err = "none"
    /\ Len(res) >= 2
    /\ Cardinality(Flagged(op.args.sigma, op.args.est)) = Len(res)
    /\ ret = Num(RInt(1))

TakesEstimator == op.name \in {"is_outlier", "outlier_frac", "plot_residuals"}

ArraysKept == prediction' = prediction /\ truth' = truth /\ res' = res

FailedCallKeepsArrays == (err' = "InvalidEstimator") => ArraysKept

CallKeepsArrays == (pc \in {"ready", "returned"}) => ArraysKept

\* C5: a call that takes a spread estimator fails with InvalidEstimator exactly
\* when lowercase(name) is neither "nmad" nor "std"; "nmad" selects the NMAD
\* with label sigma_NMAD, "std" the standard deviation with label sigma; and a
\* failing call leaves prediction, truth and residual unchanged.
C5_InvalidEstimatorIffUnknownName ==
    /\ [](pc = "returned" /\ TakesEstimator
            => /\ (err = "InvalidEstimator") <=> ~ValidName(op.args.est)
               /\ (err = "none" /\ op.name = "is_outlier")
                     => SeqSet(Select(ret.m, TRUE))
                            = Flagged(op.args.sigma, op.args.est)
               /\ (err = "none" /\ op.name = "outlier_frac" /\ Len(res) > 0)
                     => FractionIs(ret,
                            Cardinality(Flagged(op.args.sigma, op.args.est)),
                            Len(res))
               /\ (err = "none" /\ op.name = "plot_residuals")
                     => /\ SeqSet(ax.out) = Flagged(op.args.sigma, op.args.est)
                        /\ ax.title.label =
                              (IF Lower(op.args.est) = StrNmad
                               THEN "sigma_NMAD" ELSE "sigma"))
    /\ [][FailedCallKeepsArrays]_vars

C5_Witness ==
    /\ IsCall("plot_residuals")
    /\ err = "none"
    /\ op.args.est = <<"S", "t", "d">>
    /\ ax.title.label = "sigma"
    /\ ax.out # <<>>

\* C6: once constructed, no call to nmad, std, r2, is_outlier, outlier_frac or
\* plot_residuals changes the stored prediction, truth or residual, even with
\* a scaling function that overwrites the array it is given.
C6_CallsLeaveArraysUnchanged ==
    [][CallKeepsArrays]_vars

C6_Witness ==
    /\ IsCall("plot_residuals")
    /\ err = "none"
    /\ op.args.view = "raw"
    /\ scale_as = "one_plus_inplace"
    /\ Len(truth) >= 2
    /\ ScaleCall(scale_as, truth).arg # truth

AllSame(t) == \A i, j \in 1..Len(t) : t[i] = t[j]

SumSq(a, b) ==
    RSum([i \in 1..Len(a) |-> RInt((a[i] - b[i]) * (a[i] - b[i]))])

TruthTotal == RSum(SqDev(IntsToRat(truth), Mean(IntsToRat(truth))))

R2Formula ==
    ~AllSame(truth)
        => /\ ret.k = "num"
           /\ RMul(RSub(RInt(1), ret.v), TruthTotal) = SumSq(truth, prediction)

PlotDone == IsCall("plot_residuals") /\ err = "none"

Disjoint(a, b) == SeqSet(a) \cap SeqSet(b) = {}

DrawnOnce ==
    /\ Len(ax.out) + Len(ax.nonout) = Len(res)
    /\ Cardinality(SeqSet(ax.out)) = Len(ax.out)
    /\ Cardinality(SeqSet(ax.nonout)) = Len(ax.nonout)
    /\ Disjoint(ax.out, ax.nonout)
    /\ SeqSet(ax.out) \cup SeqSet(ax.nonout) = 1..Len(res)

Classified ==
    LET m == OutlierMask(res, op.args.sigma,
                 SpreadOf(ChooseSpreadEstimator(op.args.est), res))
    IN  \A i \in 1..Len(res) :
            /\ m[i] <=> i \in SeqSet(ax.out)
            /\ ~m[i] <=> i \in SeqSet(ax.nonout)

PercentOf(f) == RMul(RInt(100), f.v)

AtLeastOne(sigma) == RLe(RInt(1), sigma)

\* C9: with the "nmad" estimator and outlier_sigmas >= 1, for N >= 1 at most
\* floor(N/2) indices are flagged, so the outlier fraction is at most 1/2 and
\* never 1.0.
C9_NmadFlagsAtMostHalf ==
    (/\ pc = "returned"
     /\ op.name \in {"is_outlier", "outlier_frac"}
     /\ err = "none"
     /\ Lower(op.args.est) = StrNmad
     /\ AtLeastOne(op.args.sigma)
     /\ Len(res) >= 1)
        => IF op.name = "is_outlier"
           THEN Count(ret.m) <= Len(res) \div 2
           ELSE ret.k = "num" /\ RLe(ret.v, <<1, 2>>) /\ ret.v # RInt(1)

C9_Witness ==
    /\ IsCall("is_outlier")
    /\ err = "none"
    /\ Lower(op.args.est) = StrNmad
    /\ AtLeastOne(op.args.sigma)
    /\ Len(res) = 3
    /\ Count(ret.m) = 1

\* C10: for a fixed analyzer and estimator, raising the threshold never flags
\* more: every index flagged at s2 is flagged at every s1 <= s2, and the
\* outlier fraction at s2 is at most the fraction at s1.
C10_MonotoneInThreshold ==
    (/\ pc = "returned"
     /\ op.name \in {"is_outlier", "outlier_frac"}
     /\ err = "none")
        => LET sp == SpreadOf(ChooseSpreadEstimator(op.args.est), res)
           IN  \A s1 \in Sigmas :
                  RLe(s1, op.args.sigma)
                     => LET lower == OutlierMask(res, s1, sp)
                        IN  IF op.name = "is_outlier"
                            THEN \A i \in 1..Len(res) : ret.m[i] => lower[i]
                            ELSE Len(res) >= 1
                                   => RLe(ret.v, Fraction(lower, Len(res)).v)

C10_Witness ==
    /\ IsCall("is_outlier")
    /\ err = "none"
    /\ Count(ret.m) = 1
    /\ \E s1 \in Sigmas :
          /\ RLt(s1, op.args.sigma)
          /\ RLt(Zero, s1)
          /\ Count(OutlierMask(res, s1,
                 SpreadOf(ChooseSpreadEstimator(op.args.est), res))) = Len(res)
====
